---- MODULE Spec2Model ----
(***************************************************************************)
(* depcheck (src/main.go): compares the revisions locked in ./Gopkg.lock   *)
(* with those locked in vendor/<project>/Gopkg.lock, reports the           *)
(* differences, and with -fix rewrites ./Gopkg.lock and reruns             *)
(* `dep ensure` once.                                                      *)
(*                                                                         *)
(* Spec     : a whole run of main().                                       *)
(* DiffSpec : one call of diffProjectDeps(a, b, ondiff) on arbitrary       *)
(*            documents, with ondiff nil or main's closure.                *)
(***************************************************************************)
EXTENDS Integers, Sequences, FiniteSets, TLC

\* Longest Projects list of a lock document.
MaxLen == 2

\* Project names and revisions that occur in the lock documents.
Names == {"A", "B"}
Revisions == {"r1", "r2"}

\* What the fields Branch, Packages and Version of a Project hold together,
\* and what SolveMeta holds.
Others == {"o1", "o2"}
Metas == {"m1", "m2"}

\* type Project: Name, Revision, and the fields the tool never looks at.
Project == [name : Names, revision : Revisions, other : Others]

\* type LockFile: the Projects slice, in file order (SolveMeta is kept in
\* myMeta and projMeta).
LockFile == UNION {[1..n -> Project] : n \in 0..MaxLen}

\* The documents whose projects all hold `other` in their other fields.
LockFilesWith(other) ==
    {l \in LockFile : \A i \in DOMAIN l : l[i].other = other}

\* A file of the working directory: missing, not parseable as TOML, or a
\* lock document with or without the "autogenerated" comment on top.
Absent ==
    [kind |-> "absent", hdr |-> FALSE, projects |-> <<>>, meta |-> ""]
Malformed ==
    [kind |-> "malformed", hdr |-> FALSE, projects |-> <<>>, meta |-> ""]
Encoded(hdr, lock, meta) ==
    [kind |-> "ok", hdr |-> hdr, projects |-> lock, meta |-> meta]
LockFilesOnDisk(other, meta) ==
    {Encoded(TRUE, l, meta) : l \in LockFilesWith(other)}
    \cup {Absent, Malformed}

VARIABLES
    pc,             \* position in main / diffProjectDeps / writeTomlFile
    fix,            \* *fix
    fixArg,         \* history: the -fix flag as given on the command line
    lockFile,       \* file ./Gopkg.lock
    origLock,       \* history: ./Gopkg.lock when the run started
    vendorLock,     \* file vendor/<proj>/Gopkg.lock
    newFile,        \* file ./Gopkg.lock.new
    myLock,         \* myLock.Projects (argument a of diffProjectDeps)
    myMeta,         \* myLock.SolveMeta
    projLock,       \* projLock.Projects (argument b of diffProjectDeps)
    projMeta,       \* projLock.SolveMeta
    ondiff,         \* argument ondiff: "nil" or "main" (the closure of main)
    aAtCall,        \* history: a.Projects when diffProjectDeps was entered
    adeps, bdeps,   \* the two name -> revision maps
    todo,           \* keys of adeps the range loop has not visited yet
    numDifferences,
    calls,          \* history: the invocations of ondiff, in order
    headerPrinted,
    stdout, stderr, \* lines the tool printed
    werr,           \* writeTomlFile's return value is a non-nil error
    wFailed,        \* history: the steps of writeTomlFile that failed
    trace,          \* history: LOAD_LOCAL / DIFF / PERSIST / RECONVERGE
    exitStatus

vars == <<pc, fix, fixArg, lockFile, origLock, vendorLock, newFile, myLock,
          myMeta, projLock, projMeta, ondiff, aAtCall, adeps, bdeps, todo,
          numDifferences,
          calls, headerPrinted, stdout, stderr, werr, wFailed, trace,
          exitStatus>>

diffVars == <<ondiff, aAtCall, adeps, bdeps, todo, numDifferences, calls>>
fsVars == <<lockFile, vendorLock, newFile>>
writeVars == <<werr, wFailed>>

----------------------------------------------------------------------------
\* Helpers over documents.

NamesOf(lock) == {lock[i].name : i \in DOMAIN lock}

LastIndex(lock, name) ==
    CHOOSE i \in DOMAIN lock :
        /\ lock[i].name = name
        /\ \A j \in DOMAIN lock : lock[j].name = name => j <= i

\* The loops that fill adeps and bdeps: a later entry overwrites an earlier
\* one of the same name.
Deps(lock) == [n \in NamesOf(lock) |-> lock[LastIndex(lock, n)].revision]

\* The loops that look a project up by name: the first entry wins.
FirstIndex(lock, name) ==
    CHOOSE i \in DOMAIN lock :
        /\ lock[i].name = name
        /\ \A j \in DOMAIN lock : lock[j].name = name => i <= j

\* readDepLockFile: ioutil.ReadFile then toml.Unmarshal (comments dropped).
readDepLockFile(file) ==
    IF file.kind = "absent"
    THEN [err |-> "notexist", lock |-> <<>>, meta |-> ""]
    ELSE IF file.kind = "malformed"
    THEN [err |-> "other", lock |-> <<>>, meta |-> ""]
    ELSE [err |-> "nil", lock |-> file.projects, meta |-> file.meta]

Line(kind, name, rev) == [kind |-> kind, name |-> name, rev |-> rev]
HeaderLines == <<Line("---", "", ""), Line("+++", "", "")>>
PairLines(name, arev, brev) == <<Line("-", name, arev), Line("+", name, brev)>>

Count(seq, x) == Cardinality({i \in DOMAIN seq : seq[i] = x})

Exit(status) ==
    /\ pc' = "done"
    /\ exitStatus' = status

----------------------------------------------------------------------------
\* diffProjectDeps

DiffBuildMapsFirstWins ==
    /\ pc = "diffEntry"
    /\ adeps' = Deps(myLock)
    /\ bdeps' = [n \in NamesOf(projLock) |->
                    projLock[FirstIndex(projLock, n)].revision]
    /\ todo' = NamesOf(myLock)
    /\ numDifferences' = 0
    /\ aAtCall' = myLock
    /\ calls' = <<>>
    /\ trace' = Append(trace, "DIFF")
    /\ pc' = "diffLoop"
    /\ UNCHANGED <<fix, fixArg, origLock, fsVars, myLock, myMeta, projLock,
                   projMeta, ondiff, headerPrinted, stdout, stderr, writeVars,
                   exitStatus>>

\* Lines 56-65: the two maps, numDifferences = 0 and the start of the loop.
DiffBuildMaps ==
    /\ pc = "diffEntry"
    /\ adeps' = Deps(myLock)
    /\ bdeps' = Deps(projLock)
    /\ todo' = NamesOf(myLock)
    /\ numDifferences' = 0
    /\ aAtCall' = myLock
    /\ calls' = <<>>
    /\ trace' = Append(trace, "DIFF")
    /\ pc' = "diffLoop"
    /\ UNCHANGED <<fix, fixArg, origLock, fsVars, myLock, myMeta, projLock,
                   projMeta, ondiff, headerPrinted, stdout, stderr, writeVars,
                   exitStatus>>

DiffersEqual(name) == name \in DOMAIN bdeps /\ adeps[name] = bdeps[name]
DiffersNoRevisionCheck(name) == name \in DOMAIN bdeps
\* The test of the loop body: the name is in both maps, revisions differ.
Differs(name) == name \in DOMAIN bdeps /\ adeps[name] # bdeps[name]

HeaderPrintedNeverSet == headerPrinted
\* headerPrinted = true
HeaderPrintedAfter == TRUE

\* The closure main passes as ondiff.
OnDiffMain(name, ai, bi) ==
    IF fix
    THEN /\ myLock' = [myLock EXCEPT ![ai].revision = projLock[bi].revision]
         /\ UNCHANGED <<myMeta, headerPrinted, stdout>>
    ELSE /\ stdout' = stdout
                      \o (IF ~headerPrinted THEN HeaderLines ELSE <<>>)
                      \o PairLines(name, myLock[ai].revision,
                                   projLock[bi].revision)
         /\ headerPrinted' = HeaderPrintedAfter
         /\ UNCHANGED <<myLock, myMeta>>

CountedOnlyWithCallback ==
    IF ondiff # "nil" THEN numDifferences + 1 ELSE numDifferences
\* numDifferences++
Incremented == numDifferences + 1

\* One iteration of `for name, arev := range adeps`; the order in which a Go
\* map is ranged over is not specified, so any remaining key may come next.
DiffIterate ==
    /\ pc = "diffLoop"
    /\ \E name \in todo :
        /\ todo' = todo \ {name}
        /\ IF Differs(name)
           THEN /\ IF ondiff # "nil"
                   THEN LET ai == FirstIndex(myLock, name)
                            bi == FirstIndex(projLock, name)
                        IN  /\ OnDiffMain(name, ai, bi)
                            /\ calls' = Append(calls,
                                   [name |-> name, a |-> ai, b |-> bi,
                                    arev |-> myLock[ai].revision,
                                    brev |-> projLock[bi].revision])
                   ELSE UNCHANGED <<myLock, myMeta, headerPrinted, stdout,
                                    calls>>
                /\ numDifferences' = Incremented
           ELSE UNCHANGED <<myLock, myMeta, headerPrinted, stdout, calls,
                            numDifferences>>
    /\ UNCHANGED <<pc, fix, fixArg, origLock, fsVars, projLock, projMeta,
                   ondiff, aAtCall, adeps, bdeps, stderr, writeVars, trace,
                   exitStatus>>

DiffReturn ==
    /\ pc = "diffLoop"
    /\ todo = {}
    /\ pc' = "afterDiff"
    /\ UNCHANGED <<fix, fixArg, origLock, fsVars, myLock, myMeta, projLock,
                   projMeta, diffVars, headerPrinted, stdout, stderr,
                   writeVars, trace, exitStatus>>

DiffNext == DiffBuildMaps \/ DiffIterate \/ DiffReturn

\* diffProjectDeps(a, b, nil) as a function of its arguments.
DiffNil(a, b) ==
    Cardinality({n \in DOMAIN Deps(a) :
                    n \in DOMAIN Deps(b) /\ Deps(a)[n] # Deps(b)[n]})

\* The names diffProjectDeps(a, b, ondiff) counts and hands to ondiff.
DiffNames(a, b) ==
    {n \in DOMAIN Deps(a) :
        n \in DOMAIN Deps(b) /\ Deps(a)[n] # Deps(b)[n]}

DiffInit ==
    /\ pc = "diffEntry"
    /\ myLock \in LockFilesWith("o1")
    /\ myMeta = "m1"
    /\ projLock \in LockFile
    /\ \E o \in Others : projLock \in LockFilesWith(o)
    /\ projMeta = "m2"
    /\ ondiff \in {"nil", "main"}
    /\ fix \in BOOLEAN
    /\ fixArg = fix
    /\ lockFile = Absent /\ origLock = Absent
    /\ vendorLock = Absent /\ newFile = Absent
    /\ aAtCall = <<>> /\ adeps = <<>> /\ bdeps = <<>> /\ todo = {}
    /\ numDifferences = 0 /\ calls = <<>>
    /\ headerPrinted = FALSE /\ stdout = <<>> /\ stderr = <<>>
    /\ werr = FALSE /\ wFailed = {} /\ trace = <<>>
    /\ exitStatus = 0

DiffSpec == DiffInit /\ [][DiffNext]_vars

----------------------------------------------------------------------------
\* main

Msg(id) == Line("Error", id, "")

\* len(args) != 1
CheckArgs ==
    /\ pc = "args"
    /\ \E nargs \in 0..2 :
        IF nargs # 1
        THEN /\ stderr' = Append(stderr, Msg("usage"))
             /\ Exit(1)
        ELSE /\ pc' = "stat"
             /\ UNCHANGED <<stderr, exitStatus>>
    /\ UNCHANGED <<fix, fixArg, origLock, fsVars, myLock, myMeta, projLock,
                   projMeta, diffVars, headerPrinted, stdout, writeVars,
                   trace>>

\* os.Stat(vendor/<proj>) and st.IsDir()
StatVendor ==
    /\ pc = "stat"
    /\ \E st \in {"notexist", "error", "file", "dir"} :
        IF st = "dir"
        THEN /\ pc' = "readProj"
             /\ UNCHANGED <<stderr, exitStatus>>
        ELSE /\ stderr' = Append(stderr, Msg("vendor " \o st))
             /\ Exit(1)
    /\ UNCHANGED <<fix, fixArg, origLock, fsVars, myLock, myMeta, projLock,
                   projMeta, diffVars, headerPrinted, stdout, writeVars,
                   trace>>

\* projLock, err := readDepLockFile(vendor/<proj>/Gopkg.lock)
ReadProjLock ==
    /\ pc = "readProj"
    /\ LET r == readDepLockFile(vendorLock)
       IN  IF r.err # "nil"
           THEN /\ stderr' = Append(stderr, Msg("reference " \o r.err))
                /\ Exit(1)
                /\ UNCHANGED <<projLock, projMeta>>
           ELSE /\ projLock' = r.lock
                /\ projMeta' = r.meta
                /\ pc' = "DIFF"
                /\ UNCHANGED <<stderr, exitStatus>>
    /\ UNCHANGED <<fix, fixArg, origLock, fsVars, myLock, myMeta, diffVars,
                   headerPrinted, stdout, writeVars, trace>>

LoadLocalStale ==
    IF Count(trace, "LOAD_LOCAL") > 0
    THEN [err |-> "nil", lock |-> myLock, meta |-> myMeta]
    ELSE readDepLockFile(lockFile)
\* readDepLockFile("Gopkg.lock")
LoadLocal == readDepLockFile(lockFile)

\* Label DIFF: myLock, err := readDepLockFile("Gopkg.lock"), then
\* var headerPrinted bool and the call of diffProjectDeps.
ReadMyLock ==
    /\ pc = "DIFF"
    /\ trace' = Append(trace, "LOAD_LOCAL")
    /\ LET r == LoadLocal
       IN  IF r.err # "nil"
           THEN /\ stderr' = Append(stderr, Msg("local " \o r.err))
                /\ Exit(1)
                /\ UNCHANGED <<myLock, myMeta, headerPrinted>>
           ELSE /\ myLock' = r.lock
                /\ myMeta' = r.meta
                /\ headerPrinted' = FALSE
                /\ pc' = "diffEntry"
                /\ UNCHANGED <<stderr, exitStatus>>
    /\ UNCHANGED <<fix, fixArg, origLock, fsVars, projLock, projMeta,
                   diffVars, stdout, writeVars>>

ExitStatusKept == exitStatus
\* os.Exit(1) of the branch diff > 0 without fix
ReportedStatus == 1

AfterDiffWritesWithoutFix ==
    /\ pc = "afterDiff"
    /\ IF numDifferences > 0
       THEN /\ pc' = "wCreate"
            /\ trace' = Append(trace, "PERSIST")
            /\ UNCHANGED exitStatus
       ELSE /\ Exit(0)
            /\ UNCHANGED trace
    /\ UNCHANGED <<fix, fixArg, origLock, fsVars, myLock, myMeta, projLock,
                   projMeta, diffVars, headerPrinted, stdout, stderr,
                   writeVars>>

\* if diff > 0 { if *fix { writeTomlFile ... } os.Exit(1) }
AfterDiff ==
    /\ pc = "afterDiff"
    /\ IF numDifferences > 0
       THEN IF fix
            THEN /\ pc' = "wCreate"
                 /\ trace' = Append(trace, "PERSIST")
                 /\ UNCHANGED exitStatus
            ELSE /\ Exit(ReportedStatus)
                 /\ UNCHANGED trace
       ELSE /\ Exit(0)
            /\ UNCHANGED trace
    /\ UNCHANGED <<fix, fixArg, origLock, fsVars, myLock, myMeta, projLock,
                   projMeta, diffVars, headerPrinted, stdout, stderr,
                   writeVars>>

----------------------------------------------------------------------------
\* writeTomlFile("Gopkg.lock", *myLock)

Failed(step) == wFailed' = wFailed \cup {step}

\* f, err := os.Create(fpath + ".new"); on error return before any defer
WCreate ==
    /\ pc = "wCreate"
    /\ \E ok \in BOOLEAN :
        IF ok
        THEN /\ newFile' = Encoded(FALSE, <<>>, "")
             /\ pc' = "wHeader"
             /\ UNCHANGED <<werr, wFailed>>
        ELSE /\ werr' = TRUE
             /\ Failed("create")
             /\ pc' = "wReturn"
             /\ UNCHANGED newFile
    /\ UNCHANGED <<fix, fixArg, origLock, lockFile, vendorLock, myLock,
                   myMeta, projLock, projMeta, diffVars, headerPrinted,
                   stdout, stderr, trace, exitStatus>>

\* fmt.Fprint(f, "# This file is autogenerated ..."): the result is dropped
WHeader ==
    /\ pc = "wHeader"
    /\ \E ok \in BOOLEAN :
        /\ newFile' = [newFile EXCEPT !.hdr = ok]
        /\ IF ok THEN UNCHANGED wFailed ELSE Failed("header")
    /\ pc' = "wEncode"
    /\ UNCHANGED <<fix, fixArg, origLock, lockFile, vendorLock, myLock,
                   myMeta, projLock, projMeta, diffVars, headerPrinted,
                   stdout, stderr, werr, trace, exitStatus>>

\* enc.Encode(data)
WEncode ==
    /\ pc = "wEncode"
    /\ \E ok \in BOOLEAN :
        IF ok
        THEN /\ newFile' = [newFile EXCEPT !.projects = myLock,
                                          !.meta = myMeta]
             /\ pc' = "wClose"
             /\ UNCHANGED <<werr, wFailed>>
        ELSE /\ werr' = TRUE
             /\ Failed("encode")
             /\ pc' = "wDefer"
             /\ UNCHANGED newFile
    /\ UNCHANGED <<fix, fixArg, origLock, lockFile, vendorLock, myLock,
                   myMeta, projLock, projMeta, diffVars, headerPrinted,
                   stdout, stderr, trace, exitStatus>>

\* f.Close()
WClose ==
    /\ pc = "wClose"
    /\ \E ok \in BOOLEAN :
        IF ok
        THEN /\ pc' = "wRename"
             /\ UNCHANGED <<werr, wFailed>>
        ELSE /\ werr' = TRUE
             /\ Failed("close")
             /\ pc' = "wDefer"
    /\ UNCHANGED <<fix, fixArg, origLock, fsVars, myLock, myMeta, projLock,
                   projMeta, diffVars, headerPrinted, stdout, stderr, trace,
                   exitStatus>>

\* return os.Rename(fpath+".new", fpath)
WRename ==
    /\ pc = "wRename"
    /\ \E ok \in BOOLEAN :
        IF ok
        THEN /\ lockFile' = newFile
             /\ newFile' = Absent
             /\ werr' = FALSE
             /\ UNCHANGED wFailed
        ELSE /\ werr' = TRUE
             /\ Failed("rename")
             /\ UNCHANGED <<lockFile, newFile>>
    /\ pc' = "wDefer"
    /\ UNCHANGED <<fix, fixArg, origLock, vendorLock, myLock, myMeta,
                   projLock, projMeta, diffVars, headerPrinted, stdout,
                   stderr, trace, exitStatus>>

\* The deferred f.Close() and os.Remove(fpath + ".new")
WDefer ==
    /\ pc = "wDefer"
    /\ newFile' = Absent
    /\ pc' = "wReturn"
    /\ UNCHANGED <<fix, fixArg, origLock, lockFile, vendorLock, myLock,
                   myMeta, projLock, projMeta, diffVars, headerPrinted,
                   stdout, stderr, writeVars, trace, exitStatus>>

WReturnRetry ==
    /\ pc = "wReturn"
    /\ pc' = IF werr THEN "wCreate" ELSE "ensure"
    /\ UNCHANGED <<fix, fixArg, origLock, fsVars, myLock, myMeta, projLock,
                   projMeta, diffVars, headerPrinted, stdout, stderr,
                   writeVars, trace, exitStatus>>

WReturnNoExit ==
    /\ pc = "wReturn"
    /\ IF werr
       THEN stderr' = Append(stderr, Msg("update"))
       ELSE UNCHANGED stderr
    /\ pc' = "ensure"
    /\ UNCHANGED <<fix, fixArg, origLock, fsVars, myLock, myMeta, projLock,
                   projMeta, diffVars, headerPrinted, stdout, writeVars,
                   trace, exitStatus>>

\* if err := writeTomlFile(...); err != nil { ...; os.Exit(1) }
WReturn ==
    /\ pc = "wReturn"
    /\ IF werr
       THEN /\ stderr' = Append(stderr, Msg("update"))
            /\ Exit(1)
       ELSE /\ pc' = "ensure"
            /\ UNCHANGED <<stderr, exitStatus>>
    /\ UNCHANGED <<fix, fixArg, origLock, fsVars, myLock, myMeta, projLock,
                   projMeta, diffVars, headerPrinted, stdout, writeVars,
                   trace>>

----------------------------------------------------------------------------
\* exec.Command("dep", "ensure").Run()

\* What a successful `dep ensure` may leave in ./Gopkg.lock: the same
\* projects at revisions of the solver's choice, or something unreadable.
EnsureResults(file) ==
    {Encoded(TRUE, l, meta) :
        l \in {m \in LockFile :
                 /\ Len(m) = Len(file.projects)
                 /\ \A i \in DOMAIN m :
                       /\ m[i].name = file.projects[i].name
                       /\ m[i].other = file.projects[i].other},
        meta \in Metas}
    \cup {Malformed}

FixKept == fix
\* *fix = false
FixAfterEnsure == FALSE

RunEnsureNoExit ==
    /\ pc = "ensure"
    /\ trace' = Append(trace, "RECONVERGE")
    /\ \/ stderr' = Append(stderr, Msg("ensure"))
       \/ UNCHANGED stderr
    /\ lockFile' \in EnsureResults(lockFile)
    /\ fix' = FixAfterEnsure
    /\ pc' = "DIFF"
    /\ UNCHANGED <<fixArg, origLock, vendorLock, newFile, myLock, myMeta,
                   projLock, projMeta, diffVars, headerPrinted, stdout,
                   writeVars, exitStatus>>

\* cmd.Run(): on error one line and os.Exit(1), else *fix = false, goto DIFF
RunEnsure ==
    /\ pc = "ensure"
    /\ trace' = Append(trace, "RECONVERGE")
    /\ \/ /\ stderr' = Append(stderr, Msg("ensure"))
          /\ Exit(1)
          /\ UNCHANGED <<fix, lockFile>>
       \/ /\ lockFile' \in EnsureResults(lockFile)
          /\ fix' = FixAfterEnsure
          /\ pc' = "DIFF"
          /\ UNCHANGED <<stderr, exitStatus>>
    /\ UNCHANGED <<fixArg, origLock, vendorLock, newFile, myLock, myMeta,
                   projLock, projMeta, diffVars, headerPrinted, stdout,
                   writeVars>>

----------------------------------------------------------------------------

Init ==
    /\ pc = "args"
    /\ fix \in BOOLEAN
    /\ fixArg = fix
    /\ lockFile \in LockFilesOnDisk("o1", "m1")
    /\ origLock = lockFile
    /\ vendorLock \in LockFilesOnDisk("o2", "m2")
    /\ newFile = Absent
    /\ myLock = <<>> /\ projLock = <<>>
    /\ myMeta = "" /\ projMeta = ""
    /\ ondiff = "main"
    /\ aAtCall = <<>> /\ adeps = <<>> /\ bdeps = <<>> /\ todo = {}
    /\ numDifferences = 0 /\ calls = <<>>
    /\ headerPrinted = FALSE /\ stdout = <<>> /\ stderr = <<>>
    /\ werr = FALSE /\ wFailed = {} /\ trace = <<>>
    /\ exitStatus = 0

Next ==
    \/ CheckArgs \/ StatVendor \/ ReadProjLock \/ ReadMyLock
    \/ DiffBuildMaps \/ DiffIterate \/ DiffReturn
    \/ AfterDiff
    \/ WCreate \/ WHeader \/ WEncode \/ WClose \/ WRename \/ WDefer \/ WReturn
    \/ RunEnsure

Spec == Init /\ [][Next]_vars

----------------------------------------------------------------------------
\* Properties

\* Names are unique within the document.
Unique(lock) ==
    \A i, j \in DOMAIN lock : lock[i].name = lock[j].name => i = j

\* The names that have an entry in both documents with different revisions.
MismatchedNames(A, B) ==
    {n \in Names : \E i \in DOMAIN A, j \in DOMAIN B :
        /\ A[i].name = n
        /\ B[j].name = n
        /\ A[i].revision # B[j].revision}

\* The pass whose results the diff variables hold has returned.
DiffReturned == pc = "afterDiff"

WritePcs == {"wCreate", "wHeader", "wEncode", "wClose", "wRename", "wDefer",
             "wReturn"}

\* C1: for documents with unique names diffProjectDeps returns the number
\* of names that are in both documents with different revisions, and the
\* callback is never handed a name that is missing from one of them.
C1_CountsCommonNamesThatDiffer ==
    /\ (DiffReturned /\ Unique(aAtCall) /\ Unique(projLock))
          => numDifferences = Cardinality(MismatchedNames(aAtCall, projLock))
    /\ \A k \in DOMAIN calls :
          calls[k].name \in NamesOf(aAtCall) \cap NamesOf(projLock)

C1_Witness ==
    /\ DiffReturned /\ ondiff = "main"
    /\ Unique(aAtCall) /\ Unique(projLock)
    /\ Len(aAtCall) = 2 /\ Len(projLock) = 1
    /\ numDifferences = 1 /\ Len(calls) = 1

\* C2: the callback is invoked for the mismatched names in the order in
\* which they appear in the local document.
C2_CallbackInLocalOrder ==
    \A i, j \in DOMAIN calls :
        i < j => FirstIndex(aAtCall, calls[i].name)
                    < FirstIndex(aAtCall, calls[j].name)

\* C3: after a pass in which the callback copied the reference revision
\* into the local entry for every mismatch, diffing the local document
\* against the reference again returns 0.
C3_FixPassConverges ==
    (DiffReturned /\ ondiff = "main" /\ fix)
        => DiffNil(myLock, projLock) = 0

\* C4: Gopkg.lock is loaded and diffed at most twice, written and
\* re-resolved at most once, and the second pass runs with fix off and
\* reaches neither writeTomlFile nor `dep ensure`.
C4_LoopBounded ==
    /\ Count(trace, "LOAD_LOCAL") <= 2
    /\ Count(trace, "DIFF") <= 2
    /\ Count(trace, "PERSIST") <= 1
    /\ Count(trace, "RECONVERGE") <= 1
    /\ Count(trace, "LOAD_LOCAL") = 2
          => /\ ~fix
             /\ pc \notin WritePcs \cup {"ensure"}
             /\ trace[Len(trace)] \in {"LOAD_LOCAL", "DIFF"}

C4_Witness ==
    /\ pc = "done"
    /\ Count(trace, "DIFF") = 2
    /\ numDifferences > 0

\* C5: when a step of writeTomlFile failed, then once the call is over
\* Gopkg.lock is what it was before, Gopkg.lock.new is gone and the run has
\* ended with exit status 1.
C5_PersistAtomic ==
    (wFailed # {} /\ pc \notin WritePcs)
        => /\ pc = "done"
           /\ exitStatus = 1
           /\ lockFile = origLock
           /\ newFile = Absent

\* C6: a run without -fix that got as far as the diff exits non-zero
\* exactly when the diff found a mismatch, and with no mismatch it has
\* printed nothing on standard output.
C6_ReportModeExit ==
    (pc = "done" /\ ~fixArg /\ Count(trace, "DIFF") > 0)
        => /\ (exitStatus # 0) <=> (numDifferences > 0)
           /\ numDifferences = 0 => stdout = <<>>

C6_Witness ==
    /\ pc = "done" /\ ~fixArg
    /\ numDifferences > 0
    /\ exitStatus = 1

\* C7: a run with -fix exits 0 only when its last diff pass found nothing
\* and Gopkg.lock as it is on disk agrees with the reference; when the pass
\* after the fix still finds mismatches they are printed as a report and
\* the exit status is 1.
C7_FixRunExit ==
    (pc = "done" /\ fixArg)
        => /\ exitStatus = 0
                => /\ Count(trace, "DIFF") > 0
                   /\ numDifferences = 0
                   /\ readDepLockFile(lockFile).err = "nil"
                   /\ DiffNil(readDepLockFile(lockFile).lock, projLock) = 0
           /\ (Count(trace, "DIFF") = 2 /\ numDifferences > 0)
                => /\ exitStatus = 1
                   /\ Len(stdout) = 2 + 2 * numDifferences
                   /\ stdout[1].kind = "---"

C7_Witness ==
    /\ pc = "done" /\ fixArg
    /\ Count(trace, "DIFF") = 2
    /\ exitStatus = 0
    /\ lockFile # origLock

\* The revisions the entries called name have in the document.
RevisionsOf(lock, name) ==
    {lock[i].revision : i \in {k \in DOMAIN lock : lock[k].name = name}}

\* C8: standard output holds the header at most once, only together with a
\* mismatch and before the first one, followed by one "- name rev" /
\* "+ name rev" pair per mismatch, with a local and a reference revision of
\* that name.
C8_HeaderOnceThenPairs ==
    /\ Cardinality({i \in DOMAIN stdout : stdout[i].kind = "---"}) <= 1
    /\ Cardinality({i \in DOMAIN stdout : stdout[i].kind = "+++"}) <= 1
    /\ stdout # <<>>
          => /\ Len(stdout) >= 4
             /\ stdout[1].kind = "---"
             /\ stdout[2].kind = "+++"
             /\ numDifferences > 0
    /\ (~fix /\ pc \in {"diffLoop", "afterDiff"})
          => /\ Len(stdout) = IF numDifferences = 0 THEN 0
                              ELSE 2 + 2 * numDifferences
             /\ \A k \in 1..numDifferences :
                  LET minus == stdout[2 * k + 1]
                      plus == stdout[2 * k + 2]
                  IN  /\ minus.kind = "-" /\ plus.kind = "+"
                      /\ minus.name = calls[k].name
                      /\ plus.name = calls[k].name
                      /\ minus.rev \in RevisionsOf(aAtCall, minus.name)
                      /\ plus.rev \in RevisionsOf(projLock, plus.name)

C8_Witness ==
    /\ pc = "done"
    /\ numDifferences = 2
    /\ Len(stdout) = 6

\* C9: for documents with unique names, the number of callback invocations
\* and the returned count are both what the call with a nil callback
\* returns, also when the callback overwrites the local revision.
C9_CallbackCountIsNilCount ==
    (DiffReturned /\ Unique(aAtCall) /\ Unique(projLock))
        => /\ numDifferences = DiffNil(aAtCall, projLock)
           /\ ondiff # "nil" => Len(calls) = DiffNil(aAtCall, projLock)
           /\ ondiff = "nil" => calls = <<>>

C9_Witness ==
    /\ DiffReturned /\ ondiff = "main" /\ fix
    /\ Unique(aAtCall) /\ Unique(projLock)
    /\ Len(calls) = 2
    /\ myLock # aAtCall

\* C10: diffing a document against itself returns 0 and never invokes the
\* callback.
C10_SelfDiffIsZero ==
    (pc \in {"diffLoop", "afterDiff"} /\ aAtCall = projLock)
        => /\ numDifferences = 0
           /\ calls = <<>>

C10_Witness ==
    /\ DiffReturned /\ ondiff = "main"
    /\ aAtCall = projLock
    /\ Len(projLock) = 2

\* C11: diffProjectDeps(A, B, cb) returns the count diffProjectDeps(B, A, cb)
\* returns and invokes cb for the same names; the first entry handed to cb
\* is an entry of the first document, the second one of the second.
C11_SymmetricInArguments ==
    DiffReturned
        => /\ numDifferences = DiffNil(projLock, aAtCall)
           /\ ondiff # "nil"
                => {calls[k].name : k \in DOMAIN calls}
                      = DiffNames(projLock, aAtCall)
           /\ \A k \in DOMAIN calls :
                /\ aAtCall[calls[k].a].name = calls[k].name
                /\ projLock[calls[k].b].name = calls[k].name

C11_Witness ==
    /\ DiffReturned /\ ondiff = "main"
    /\ Len(aAtCall) = 1 /\ Len(projLock) = 2
    /\ ~Unique(projLock)
    /\ numDifferences = 1

\* The run has ended with exit status 1 and one line on standard error, and
\* no step of main can follow.
EndedFatally ==
    /\ pc = "done"
    /\ exitStatus = 1
    /\ Len(stderr) = 1
    /\ ~ENABLED Next

LastStep == IF trace = <<>> THEN "" ELSE trace[Len(trace)]

C14_FixPassFrame ==
    /\ (fix /\ pc = "afterDiff")
          => /\ Len(myLock) = Len(aAtCall)
             /\ \A i \in DOMAIN aAtCall :
                  /\ myLock[i].name = aAtCall[i].name
                  /\ myLock[i].other = aAtCall[i].other
                  /\ myLock[i].revision
                       = IF aAtCall[i].name \in DiffNames(aAtCall, projLock)
                         THEN Deps(projLock)[aAtCall[i].name]
                         ELSE aAtCall[i].revision
             /\ myMeta = readDepLockFile(origLock).meta
             /\ projLock = readDepLockFile(vendorLock).lock
             /\ projMeta = readDepLockFile(vendorLock).meta
             /\ stdout = <<>>
    /\ pc \in {"wClose", "wRename"}
          => /\ newFile.projects = myLock
             /\ newFile.meta = myMeta
    /\ pc = "ensure"
          => /\ lockFile.projects = myLock
             /\ lockFile.meta = myMeta

\* C15: Gopkg.lock (or its temporary sibling) is written and `dep ensure` is
\* started only in a run with -fix whose first diff pass found a mismatch;
\* a run without -fix and a run with -fix whose first diff finds nothing,
\* which ends with exit status 0, leave both files as they were.
C15_WritesOnlyWhenFixing ==
    /\ (\/ Count(trace, "PERSIST") > 0
        \/ Count(trace, "RECONVERGE") > 0
        \/ pc \in WritePcs \cup {"ensure"}
        \/ lockFile # origLock
        \/ newFile # Absent)
          => /\ fixArg
             /\ DiffNil(readDepLockFile(origLock).lock, projLock) > 0
    /\ (pc = "done" /\ fixArg /\ trace = <<"LOAD_LOCAL", "DIFF">>
           /\ numDifferences = 0)
          => exitStatus = 0

C15_Witness ==
    /\ pc = "done" /\ fixArg
    /\ trace = <<"LOAD_LOCAL", "DIFF">>
    /\ numDifferences = 0
    /\ NamesOf(myLock) \cap NamesOf(projLock) # {}
    /\ lockFile = origLock

\* C16: whenever the callback is invoked with (name, a, b), a is an entry
\* of the first document and b an entry of the second, both called name,
\* they are the entries whose revisions were compared, and a.Revision
\* differs from b.Revision; for all documents, duplicated names included.
C16_CallbackGetsComparedEntries ==
    \A k \in DOMAIN calls :
        /\ aAtCall[calls[k].a].name = calls[k].name
        /\ projLock[calls[k].b].name = calls[k].name
        /\ calls[k].arev = adeps[calls[k].name]
        /\ calls[k].brev = bdeps[calls[k].name]
        /\ calls[k].arev # calls[k].brev

Terminated == pc = "done"

\* C17: every run in which each step returns reaches a terminal state.
C17_RunTerminates == <>Terminated

C17_Witness ==
    /\ Terminated
    /\ Count(trace, "DIFF") = 2
    /\ numDifferences > 0
    /\ exitStatus = 1
    /\ readDepLockFile(lockFile).lock # myLock \/ lockFile # origLock

\* Every call main makes returns: a step that can be taken is taken.
FairSpec == Spec /\ WF_vars(Next)

====
